---- MODULE Spec2Model ----
(***************************************************************************)
(* svg2img: conversion of svg markup to a raster image through the         *)
(* browser.  The model follows src/include/svg2img.h: the C++ facade       *)
(* raster::SvgToImage, the JS pipeline raster::aux::SvgToImage (EM_JS) and *)
(* the trampoline raster::aux::ExecCb.  The browser is the environment: it *)
(* delivers the img load/error event, the toBlob callback and the          *)
(* arrayBuffer settlement, one at a time, on a single-threaded event loop. *)
(***************************************************************************)
EXTENDS Integers, Sequences, FiniteSets, TLC

\* ------------------------------------------------------------------------
\* Bounds
\* ------------------------------------------------------------------------

\* Number of conversion requests the caller issues.
NReq == 2

\* Longest markup (in bytes) handed to raster::SvgToImage.
MaxLen == 1

\* Longest exported image (in bytes) the browser hands to processBlob.
MaxBlob == 1

Requests == 1..NReq

\* ------------------------------------------------------------------------
\* Values
\* ------------------------------------------------------------------------

\* Markup bytes: the terminator '\0', an ordinary character, and a byte
\* sequence that UTF8ToString decodes to an unpaired surrogate (the one
\* input on which encodeURIComponent throws URIError).
NUL == "NUL"
Ch == "Ch"
Sur == "Sur"
SvgByte == {NUL, Ch, Sur}

\* Bytes of an exported image.
ImgByte == {137, 80}

\* The meta pointer the caller passes with request r: the address of the
\* caller's own record of that request (0 is nullptr, held before the call).
MetaOf(r) == r

\* raster::Error
None == "None"
NoInputData == "NoInputData"
UriEncodingFailed == "UriEncodingFailed"
ImgLoadingFailed == "ImgLoadingFailed"
CanvasDrawingFailed == "CanvasDrawingFailed"
BlobExportFailed == "BlobExportFailed"
Error == {None, NoInputData, UriEncodingFailed, ImgLoadingFailed,
          CanvasDrawingFailed, BlobExportFailed}

\* All sequences over S of length at most n.
SeqsUpTo(S, n) == UNION {[1..k -> S] : k \in 0..n}

Markups == SeqsUpTo(SvgByte, MaxLen)
Blobs == SeqsUpTo(ImgByte, MaxBlob)

\* The ways the synchronous body of drawSvg can end.
DrawOutcome == {"drawn", "drawImageThrows", "toBlobThrows"}

\* ------------------------------------------------------------------------
\* State
\* ------------------------------------------------------------------------

VARIABLES
    st,         \* st[r]: where request r is in the pipeline
    svg,        \* svg[r]: the markup passed to raster::SvgToImage
    meta,       \* meta[r]: the meta pointer captured by the JS closure
    created,    \* created[r]: number of `new Callback` executed for r
    destroyed,  \* destroyed[r]: number of `delete pcb` executed for r
    blob,       \* blob[r]: the bytes of the Blob being read or delivered
    mallocs,    \* mallocs[r]: successful Module._malloc calls of loadImage
    frees,      \* frees[r]: Module._free calls of loadImage
    calls,      \* calls[r]: the invocations of r's callback, in order
    cause,      \* cause[r]: the operation whose failure ended request r
    alerts,     \* alerts[r]: number of alert() calls made for request r
    trace,      \* trace[r]: the pipeline stages request r entered, in order
    accesses    \* accesses[r]: the accesses made to r's native inputs

pipelineVars == <<st, svg, meta, created, destroyed, blob, mallocs, frees,
                  calls, cause, alerts, trace, accesses>>

\* The drawing stage on its own (drawSvg and setCanvasSize).
VARIABLES
    width,      \* the width argument of aux::SvgToImage
    height,     \* the height argument
    x,          \* the x argument
    y,          \* the y argument
    img,        \* the decoded <img>: its natural width and height
    canvas,     \* the <canvas>: the width and height assigned to it
    drawImage,  \* the arguments of the context.drawImage call
    dpc         \* "off", "loaded" (onload about to run) or "drawn"

drawVars == <<width, height, x, y, img, canvas, drawImage, dpc>>

\* The helpers GetImageHeader, GetImageFormat and ToCStr on their own.
VARIABLES
    buf,        \* the bytes of the string_view img
    base,       \* the address img.cbegin() points to
    pos,        \* the pos argument of GetImageHeader
    nArg,       \* the n argument of GetImageHeader
    header,     \* what GetImageHeader(img, pos, n) did, "none" before
    format,     \* what GetImageFormat(img) returned, "none" before
    enums,      \* two enumerators of one enumeration handed to ToCStr
    cstrs       \* the two strings ToCStr returned, <<>> before the calls

helperVars == <<buf, base, pos, nArg, header, format, enums, cstrs>>

\* The demo application of src/example/main.cpp, as a caller of the library.
VARIABLES
    text,       \* the markup in the text box: "empty" or "svg"
    inflight,   \* number of conversions issued and not yet answered
    presses,    \* number of presses of "Convert to img" so far
    texture,    \* the static GLuint texture (0: none)
    glTextures, \* the texture names that exist in the GL context
    out_img,    \* the static std::string out_img
    out_err,    \* the static out_err label
    delivered,  \* the bytes of the last image handed to cb, <<>> after a clear
    reads,      \* the reads of image bytes made so far
    shown       \* format and header text displayed by the last frame

demoVars == <<text, inflight, presses, texture, glTextures, out_img, out_err,
              delivered, reads, shown>>

vars == <<pipelineVars, drawVars, helperVars, demoVars>>

\* Idle: not issued.  Rejected: answered by the validator.  Loading: img.src
\* set, load/error event pending.  Exporting: canvas.toBlob pending.
\* Reading: blob.arrayBuffer() pending.  Done / Failed: terminal edge taken.
\* Aborted: loadImage threw before calling ExecCb (unhandled rejection).
Stage == {"Idle", "Rejected", "Loading", "Exporting", "Reading",
          "Done", "Failed", "Aborted"}

\* A host event of request r is still to be delivered.
HostEventPending(r) == st[r] \in {"Loading", "Exporting", "Reading"}

\* Request r was issued and went past the validator.
PassedValidation(r) == st[r] \notin {"Idle", "Rejected"}

PipelineInit ==
    /\ st = [r \in Requests |-> "Idle"]
    /\ svg = [r \in Requests |-> <<>>]
    /\ meta = [r \in Requests |-> 0]
    /\ created = [r \in Requests |-> 0]
    /\ destroyed = [r \in Requests |-> 0]
    /\ blob = [r \in Requests |-> <<>>]
    /\ mallocs = [r \in Requests |-> 0]
    /\ frees = [r \in Requests |-> 0]
    /\ calls = [r \in Requests |-> <<>>]
    /\ cause = [r \in Requests |-> "none"]
    /\ alerts = [r \in Requests |-> 0]
    /\ trace = [r \in Requests |-> <<>>]
    /\ accesses = [r \in Requests |-> {}]

\* The drawing stage before any image has loaded.
DrawRest ==
    /\ width = "0" /\ height = "0" /\ x = "0" /\ y = "0"
    /\ img = [width |-> "0", height |-> "0"]
    /\ canvas = [width |-> "300", height |-> "150"]
    /\ drawImage = <<>>
    /\ dpc = "off"

\* No helper call is being looked at.
HelperRest ==
    /\ buf = <<>> /\ base = 0 /\ pos = 0 /\ nArg = 0
    /\ header = [kind |-> "none", str |-> <<>>] /\ format = "none"
    /\ enums = <<>> /\ cstrs = <<>>

\* The demo's static state before the first frame has handled an event.
DemoRest ==
    /\ text = "svg"
    /\ inflight = 0
    /\ presses = 0
    /\ texture = 0
    /\ glTextures = {}
    /\ out_img = [owner |-> "demo", bytes |-> <<>>]
    /\ out_err = "RasterError::None"
    /\ delivered = <<>>
    /\ reads = {}
    /\ shown = <<>>

Init == PipelineInit /\ DrawRest /\ HelperRest /\ DemoRest

\* ------------------------------------------------------------------------
\* Pure parts of the code
\* ------------------------------------------------------------------------

\* raster::SvgToImage, the validator's test.
IsNoInput_OnlyEmpty(s) == s = <<>>

IsNoInput(s) == s = <<>> \/ s[1] = NUL

\* UTF8ToString(data, size): decodes at most size bytes and stops at the
\* first terminator.
RECURSIVE UTF8ToString(_)
UTF8ToString(s) ==
    IF s = <<>> \/ s[1] = NUL THEN <<>>
    ELSE <<s[1]>> \o UTF8ToString(Tail(s))

\* encodeURIComponent throws exactly on a string with an unpaired surrogate.
EncodeThrows(s) == \E i \in 1..Len(UTF8ToString(s)) : UTF8ToString(s)[i] = Sur

\* Main section of aux::SvgToImage: the stage after svgToDataUri.
StageAfterEncoding_NoReturn(s) == "Loading"

StageAfterEncoding(s) == IF EncodeThrows(s) THEN "Failed" ELSE "Loading"

\* ExecCb: the view handed to the callback.
ExecCbView_OffByOne(data, size, mem) ==
    IF data # 0 /\ size > 0 THEN SubSeq(mem, 1, size - 1) ELSE <<>>

ExecCbView(data, size, mem) ==
    IF data # 0 /\ size > 0 THEN SubSeq(mem, 1, size) ELSE <<>>

\* drawSvg: the error its catch clause reports for a throw in the try block.
CatchOfDrawSvg(outcome) == CanvasDrawingFailed

\* loadImage: the frees done once the try block is left.
FreesAfterCallback_NotOnThrow(n, threw) == IF threw THEN n ELSE n + 1

FreesAfterCallback(n, threw) == n + 1

\* failed: it calls ExecCb outside any try block, so it raises no alert.
AlertsAfterFailed(n, threw) == n

\* loadImage: the catch clause alerts when the ExecCb call threw.
AlertsAfterLoadImage_Never(n, threw) == n

AlertsAfterLoadImage(n, threw) == IF threw THEN n + 1 ELSE n

\* The native inputs (the markup behind data/size, the format C string) that
\* the synchronous part of the call reads: the validator reads svg[0],
\* svgToDataUri decodes the markup, and the main section decodes format once
\* the encoding succeeded.
SyncAccesses(s) ==
    IF s = <<>> THEN {}
    ELSE IF IsNoInput(s) \/ EncodeThrows(s)
         THEN {[ptr |-> "data", mode |-> "read", sync |-> TRUE]}
         ELSE {[ptr |-> "data", mode |-> "read", sync |-> TRUE],
               [ptr |-> "format", mode |-> "read", sync |-> TRUE]}

\* The native inputs a handler of the host reads: the handlers use the JS
\* strings data_uri and sformat made during the call, never data or format.
AsyncAccesses_FormatInDrawSvg(h) ==
    IF h = "drawSvg"
    THEN {[ptr |-> "format", mode |-> "read", sync |-> FALSE]}
    ELSE {}

AsyncAccesses(h) == {}

\* One invocation of the user callback, as the callback observes it.
\*   sync:    the issuing raster::SvgToImage call has not returned yet
\*   threw:   the callback threw
\*   bufSize: size of the result buffer that is allocated during the
\*            invocation, -1 when none is
Invocation(view, err, m, sync, threw, bufSize) ==
    [view |-> view, err |-> err, meta |-> m, sync |-> sync, threw |-> threw,
     bufSize |-> bufSize]

\* ExecCb(pcb, data, size, err, meta) for the handle of request r: copies
\* the callback out of the handle, invokes it, and deletes the handle
\* unless the callback threw.
ExecCb(r, data, size, mem, err, m, sync, threw, bufSize) ==
    /\ calls' = [calls EXCEPT ![r] =
           Append(@, Invocation(ExecCbView(data, size, mem), err, m, sync,
                                threw, bufSize))]
    /\ destroyed' = [destroyed EXCEPT ![r] = IF threw THEN @ ELSE @ + 1]

\* failed(err): ExecCb with no data.
failed(r, err, m, sync, threw) ==
    ExecCb(r, 0, 0, <<>>, err, m, sync, threw, -1)

\* ------------------------------------------------------------------------
\* Operations
\* ------------------------------------------------------------------------

\* raster::SvgToImage(svg, cb, meta, ...) together with the synchronous
\* part of aux::SvgToImage it calls.
SvgToImage(r, s, m, threw) ==
    /\ st[r] = "Idle"
    /\ svg' = [svg EXCEPT ![r] = s]
    /\ meta' = [meta EXCEPT ![r] = m]
    /\ IF IsNoInput(s)
       THEN /\ calls' = [calls EXCEPT ![r] =
                   Append(@, Invocation(<<>>, NoInputData, m, TRUE, threw, -1))]
            /\ st' = [st EXCEPT ![r] = "Rejected"]
            /\ cause' = [cause EXCEPT ![r] = "validator"]
            /\ UNCHANGED <<created, destroyed, trace>>
       ELSE /\ created' = [created EXCEPT ![r] = @ + 1]
            /\ st' = [st EXCEPT ![r] = StageAfterEncoding(s)]
            /\ trace' = [trace EXCEPT ![r] =
                   <<"Encoding">>
                   \o (IF EncodeThrows(s) THEN <<"Failed">> ELSE <<>>)
                   \o (IF StageAfterEncoding(s) = "Loading"
                       THEN <<"Loading">> ELSE <<>>)]
            /\ IF EncodeThrows(s)
               THEN /\ failed(r, UriEncodingFailed, m, TRUE, threw)
                    /\ cause' = [cause EXCEPT ![r] = "encodeURIComponent"]
               ELSE /\ threw = FALSE
                    /\ UNCHANGED <<calls, destroyed, cause>>
    /\ accesses' = [accesses EXCEPT ![r] = SyncAccesses(s)]
    /\ alerts' = [alerts EXCEPT ![r] = IF IsNoInput(s) \/ ~EncodeThrows(s)
                                        THEN @ ELSE AlertsAfterFailed(@, threw)]
    /\ UNCHANGED <<blob, mallocs, frees>>
    /\ UNCHANGED <<drawVars, helperVars, demoVars>>

\* The browser fires the error event of the <img>: img.onerror runs.  The
\* function stored in img.error is an ordinary property of the element and
\* no event invokes it.
ImgError(r, threw) ==
    /\ st[r] = "Loading"
    /\ st' = [st EXCEPT ![r] = "Failed"]
    /\ failed(r, ImgLoadingFailed, meta[r], FALSE, threw)
    /\ cause' = [cause EXCEPT ![r] = "img"]
    /\ trace' = [trace EXCEPT ![r] = Append(@, "Failed")]
    /\ alerts' = [alerts EXCEPT ![r] = AlertsAfterFailed(@, threw)]
    /\ accesses' = [accesses EXCEPT ![r] = @ \cup AsyncAccesses("onerror")]
    /\ UNCHANGED <<svg, meta, created, blob, mallocs, frees>>
    /\ UNCHANGED <<drawVars, helperVars, demoVars>>

\* The browser fires the load event of the <img>: img.onload runs drawSvg.
\* drawImage and canvas.toBlob sit in one try block, so a throw of either
\* is reported by the same catch clause.
ImgLoad(r, outcome, threw) ==
    /\ st[r] = "Loading"
    /\ IF outcome = "drawn"
       THEN /\ threw = FALSE
            /\ st' = [st EXCEPT ![r] = "Exporting"]
            /\ trace' = [trace EXCEPT ![r] = @ \o <<"Drawing", "Exporting">>]
            /\ UNCHANGED <<calls, destroyed, cause, alerts>>
       ELSE /\ st' = [st EXCEPT ![r] = "Failed"]
            /\ failed(r, CatchOfDrawSvg(outcome), meta[r], FALSE, threw)
            /\ cause' = [cause EXCEPT ![r] =
                   IF outcome = "toBlobThrows" THEN "toBlob" ELSE "drawImage"]
            /\ trace' = [trace EXCEPT ![r] = @ \o <<"Drawing", "Failed">>]
            /\ alerts' = [alerts EXCEPT ![r] = AlertsAfterFailed(@, threw)]
    /\ accesses' = [accesses EXCEPT ![r] = @ \cup AsyncAccesses("drawSvg")]
    /\ UNCHANGED <<svg, meta, created, blob, mallocs, frees>>
    /\ UNCHANGED <<drawVars, helperVars, demoVars>>

\* The browser calls the toBlob callback: processBlob(blob).  isNull: the
\* export produced no Blob (blob is null); otherwise b holds its bytes.
ProcessBlob(r, isNull, b, threw) ==
    /\ st[r] = "Exporting"
    /\ IF isNull
       THEN /\ b = <<>>
            /\ st' = [st EXCEPT ![r] = "Failed"]
            /\ failed(r, BlobExportFailed, meta[r], FALSE, threw)
            /\ cause' = [cause EXCEPT ![r] = "nullBlob"]
            /\ trace' = [trace EXCEPT ![r] = Append(@, "Failed")]
            /\ alerts' = [alerts EXCEPT ![r] = AlertsAfterFailed(@, threw)]
            /\ UNCHANGED blob
       ELSE /\ threw = FALSE
            /\ st' = [st EXCEPT ![r] = "Reading"]
            /\ blob' = [blob EXCEPT ![r] = b]
            /\ UNCHANGED <<calls, destroyed, cause, trace, alerts>>
    /\ accesses' = [accesses EXCEPT ![r] = @ \cup AsyncAccesses("processBlob")]
    /\ UNCHANGED <<svg, meta, created, mallocs, frees>>
    /\ UNCHANGED <<drawVars, helperVars, demoVars>>

\* blob.arrayBuffer() rejects: onRejected runs.
OnRejected(r, threw) ==
    /\ st[r] = "Reading"
    /\ st' = [st EXCEPT ![r] = "Failed"]
    /\ failed(r, BlobExportFailed, meta[r], FALSE, threw)
    /\ cause' = [cause EXCEPT ![r] = "arrayBuffer"]
    /\ blob' = [blob EXCEPT ![r] = <<>>]
    /\ trace' = [trace EXCEPT ![r] = Append(@, "Failed")]
    /\ alerts' = [alerts EXCEPT ![r] = AlertsAfterFailed(@, threw)]
    /\ accesses' = [accesses EXCEPT ![r] = @ \cup AsyncAccesses("onRejected")]
    /\ UNCHANGED <<svg, meta, created, mallocs, frees>>
    /\ UNCHANGED <<drawVars, helperVars, demoVars>>

\* blob.arrayBuffer() resolves: loadImage(buf) runs.  Module._malloc sits
\* outside the try block, so when the allocator fails (it aborts, which
\* throws) loadImage ends without calling ExecCb, and nothing handles the
\* rejection of the promise returned by then().
LoadImage(r, mallocOk, threw) ==
    /\ st[r] = "Reading"
    /\ IF mallocOk
       THEN /\ st' = [st EXCEPT ![r] = "Done"]
            /\ mallocs' = [mallocs EXCEPT ![r] = @ + 1]
            /\ ExecCb(r, 1, Len(blob[r]), blob[r], None, meta[r], FALSE,
                      threw, Len(blob[r]))
            /\ frees' = [frees EXCEPT ![r] = FreesAfterCallback(@, threw)]
            /\ alerts' = [alerts EXCEPT ![r] = AlertsAfterLoadImage(@, threw)]
            /\ trace' = [trace EXCEPT ![r] = Append(@, "Done")]
            /\ UNCHANGED <<blob, cause>>
       ELSE /\ threw = FALSE
            /\ st' = [st EXCEPT ![r] = "Aborted"]
            /\ blob' = [blob EXCEPT ![r] = <<>>]
            /\ cause' = [cause EXCEPT ![r] = "malloc"]
            /\ UNCHANGED <<calls, destroyed, mallocs, frees, alerts, trace>>
    /\ accesses' = [accesses EXCEPT ![r] = @ \cup AsyncAccesses("loadImage")]
    /\ UNCHANGED <<svg, meta, created>>
    /\ UNCHANGED <<drawVars, helperVars, demoVars>>

Next ==
    \/ \E r \in Requests, s \in Markups, threw \in BOOLEAN :
           SvgToImage(r, s, MetaOf(r), threw)
    \/ \E r \in Requests, threw \in BOOLEAN : ImgError(r, threw)
    \/ \E r \in Requests, o \in DrawOutcome, threw \in BOOLEAN :
           ImgLoad(r, o, threw)
    \/ \E r \in Requests, isNull \in BOOLEAN, b \in Blobs, threw \in BOOLEAN :
           ProcessBlob(r, isNull, b, threw)
    \/ \E r \in Requests, threw \in BOOLEAN : OnRejected(r, threw)
    \/ \E r \in Requests, mallocOk \in BOOLEAN, threw \in BOOLEAN :
           LoadImage(r, mallocOk, threw)

Spec == Init /\ [][Next]_vars

\* ------------------------------------------------------------------------
\* The drawing stage: drawSvg and setCanvasSize
\* ------------------------------------------------------------------------

\* The float arguments, as the JS numbers the handlers see.
Floats == {"0", "-0", "NaN", "40", "70"}

\* Natural sizes of a decoded image.
NaturalSizes == {[width |-> "300", height |-> "150"],
                 [width |-> "16", height |-> "16"]}

\* ToBoolean of a JS number: false for +0, -0 and NaN.
Truthy(v) == v \notin {"0", "-0", "NaN"}

\* setCanvasSize(canvas, w, h, img): the test reads the closure's width and
\* height, the assignment uses the parameters w and h.
setCanvasSize_TestsWidthOnly(w, h, i) ==
    IF Truthy(width)
    THEN [width |-> w, height |-> h]
    ELSE [width |-> i.width, height |-> i.height]

setCanvasSize(w, h, i) ==
    IF Truthy(width) /\ Truthy(height)
    THEN [width |-> w, height |-> h]
    ELSE [width |-> i.width, height |-> i.height]

\* drawSvg(img, fmt) up to the drawImage call.
drawSvg ==
    /\ dpc = "loaded"
    /\ canvas' = setCanvasSize(width, height, img)
    /\ drawImage' = IF Truthy(width) /\ Truthy(height)
                    THEN <<x, y, width, height>>
                    ELSE <<x, y>>
    /\ dpc' = "drawn"
    /\ UNCHANGED <<width, height, x, y, img>>
    /\ UNCHANGED <<pipelineVars, helperVars, demoVars>>

\* A request whose image has just loaded, for any arguments.
InitDraw ==
    /\ PipelineInit /\ HelperRest /\ DemoRest
    /\ width \in Floats /\ height \in Floats
    /\ x \in {"0", "10"} /\ y \in {"0", "10"}
    /\ img \in NaturalSizes
    /\ canvas = [width |-> "300", height |-> "150"]
    /\ drawImage = <<>>
    /\ dpc = "loaded"

NextDraw == drawSvg

SpecDraw == InitDraw /\ [][NextDraw]_vars

\* ------------------------------------------------------------------------
\* The helpers: ToCStr, GetImageHeader, GetImageFormat
\* ------------------------------------------------------------------------

\* Width of std::size_t and of a pointer, in bits (scaled down from 32).
WordBits == 8

\* Longest buffer built from arbitrary bytes.
MaxBuf == 2

\* Largest small value of the pos and n arguments.
MaxArg == 2

\* Number of addresses; std::size_t and pointer arithmetic wrap at it.
AddrSpace == 2 ^ WordBits

\* The value an address or a std::size_t computation wraps to.
Addr(a) == a % AddrSpace

Min(a, b) == IF a <= b THEN a ELSE b

\* Format enumerators.
Png == "Png"
Jpeg == "Jpeg"
Webp == "Webp"
Unknown == "Unknown"
Format == {Png, Jpeg, Webp, Unknown}

\* The null pointer, as a value of type const char*.
Nullptr == "nullptr"

\* ToCStr(Error) without the case of the last enumerator.
ToCStrError_MissingCase(err) ==
    CASE err = None -> "raster::Error::None"
      [] err = NoInputData -> "raster::Error::NoInputData"
      [] err = UriEncodingFailed -> "raster::Error::UriEncodingFailed"
      [] err = ImgLoadingFailed -> "raster::Error::ImgLoadingFailed"
      [] err = CanvasDrawingFailed -> "raster::Error::CanvasDrawingFailed"
      [] OTHER -> Nullptr

\* ToCStr(Error): one case per enumerator; the default falls out of the
\* switch to "return nullptr".
ToCStrError(err) ==
    CASE err = None -> "raster::Error::None"
      [] err = NoInputData -> "raster::Error::NoInputData"
      [] err = UriEncodingFailed -> "raster::Error::UriEncodingFailed"
      [] err = ImgLoadingFailed -> "raster::Error::ImgLoadingFailed"
      [] err = CanvasDrawingFailed -> "raster::Error::CanvasDrawingFailed"
      [] err = BlobExportFailed -> "raster::Error::BlobExportFailed"
      [] OTHER -> Nullptr

\* ToCStr(Format).
ToCStrFormat(fmt) ==
    CASE fmt = Png -> "png"
      [] fmt = Jpeg -> "jpeg"
      [] fmt = Webp -> "webp"
      [] fmt = Unknown -> "unknown"
      [] OTHER -> Nullptr

\* Overload resolution by the static type of the argument.
ToCStr(type, e) == IF type = "Error" THEN ToCStrError(e) ELSE ToCStrFormat(e)

\* Two enumerators of one enumeration, tagged with its name.
EnumPairs ==
    { <<"Error", a, b>> : a \in Error, b \in Error }
        \cup { <<"Format", a, b>> : a \in Format, b \in Format }

\* An element of a string_view is a char, which is signed in this build:
\* the byte b is stored as b - 256 when b >= 0x80.
ToChar(b) == IF b >= 128 THEN b - 256 ELSE b

ToChars(s) == [i \in DOMAIN s |-> ToChar(s[i])]

\* The conversion of a char to the lambda's std::uint8_t parameter.
ToUint8(c) == c % 256

\* File signatures, as byte values.
PngSig == <<137, 80, 78, 71, 13, 10, 26, 10>>
JpegSig == <<255, 216>>
RiffSig == <<82, 73, 70, 70>>
WebpSig == <<87, 69, 66, 80>>

\* Sample files: a png, a jpeg, a webp, a RIFF container that is not webp
\* (WAVE), a png signature with its last byte changed, and a buffer that
\* has the webp tag at offset 8 without RIFF in front.
PngFile == PngSig \o <<0>>
JpegFile == JpegSig \o <<255>>
WebpFile == RiffSig \o <<4, 0, 0, 0>> \o WebpSig
WaveFile == RiffSig \o <<4, 0, 0, 0>> \o <<87, 65, 86, 69>>
NearPng == <<137, 80, 78, 71, 13, 10, 26, 13>>
TagOnly == <<0, 73, 70, 70, 4, 0, 0, 0>> \o WebpSig

Prefixes(s) == { SubSeq(s, 1, k) : k \in 0..Len(s) }

\* Byte values for the arbitrary buffers: below 0x10, and at or above 0x80.
ByteSample == {0, 137, 255}

\* The buffers handed to the helpers: every truncation of the sample files
\* and every short sequence of sample bytes.
Buffers ==
    { ToChars(s) : s \in Prefixes(PngFile) \cup Prefixes(JpegFile)
                         \cup Prefixes(WebpFile) \cup Prefixes(WaveFile)
                         \cup Prefixes(NearPng) \cup Prefixes(TagOnly)
                         \cup SeqsUpTo(ByteSample, MaxBuf) }

\* Addresses of the buffer's first byte.  The buffer and the 12 bytes the
\* format detection asks for end below the top of the address space.
Bases == {16, 64}

\* Values of pos and n: small ones, the ones the library and the demo use
\* (8, 12), and the largest std::size_t.
PosValues == (0..MaxArg) \cup {8, AddrSpace - 1}
NValues == (0..MaxArg) \cup {8, 12, AddrSpace - 1}

HexDigits == <<"0", "1", "2", "3", "4", "5", "6", "7",
               "8", "9", "A", "B", "C", "D", "E", "F">>

\* std::format("{:X}", ch): no zero padding.
Format02X_NoPad(v) ==
    IF v < 16 THEN <<HexDigits[v + 1]>>
    ELSE <<HexDigits[(v \div 16) + 1], HexDigits[(v % 16) + 1]>>

\* std::format("{:02X}", ch) for a std::uint8_t: two upper-case hex digits.
Format02X(v) == <<HexDigits[(v \div 16) + 1], HexDigits[(v % 16) + 1]>>

\* std::for_each(begin, end, lambda): the text written to out for the
\* addresses begin..end-1 of the buffer b that starts at address cbegin.
RECURSIVE for_each(_, _, _, _)
for_each(b, cbegin, begin, end) ==
    IF begin >= end THEN <<>>
    ELSE Format02X(ToUint8(b[begin - cbegin + 1])) \o <<" ">>
             \o for_each(b, cbegin, begin + 1, end)

\* header.pop_back() when the header is not empty.
PopBack(s) == IF s = <<>> THEN s ELSE SubSeq(s, 1, Len(s) - 1)

\* The iterators begin and end that GetImageHeader computes, as addresses:
\* cbegin + pos and cbegin + pos + n wrap at the word size.
HeaderRange(b, cbegin, p, k) ==
    [begin |-> Min(Addr(cbegin + p), cbegin + Len(b)),
     end   |-> Min(Addr(cbegin + p + k), cbegin + Len(b))]

NoHeader == [kind |-> "none", str |-> <<>>]
AssertFails == [kind |-> "assert", str |-> <<>>]
ReadsOutside == [kind |-> "outside", str |-> <<>>]
Returns(s) == [kind |-> "returns", str |-> s]

\* GetImageHeader(img, pos, n): the outcomes the builds can produce.  With
\* begin > end the assertion stops a build that has assertions, and a build
\* without them runs for_each from begin upwards past cend; with begin
\* below cbegin and a non-empty range for_each reads in front of the buffer.
GetImageHeader(b, cbegin, p, k) ==
    LET r == HeaderRange(b, cbegin, p, k) IN
    IF r.begin > r.end THEN {AssertFails, ReadsOutside}
    ELSE IF r.begin < cbegin /\ r.begin < r.end THEN {ReadsOutside}
    ELSE {Returns(PopBack(for_each(b, cbegin, r.begin, r.end)))}

\* The string a call inside GetImageFormat returns.
HeaderText(b, cbegin, p, k) == (CHOOSE o \in GetImageHeader(b, cbegin, p, k) : TRUE).str

\* The signature literals of GetImageFormat.
png_sig == <<"8", "9", " ", "5", "0", " ", "4", "E", " ", "4", "7", " ",
             "0", "D", " ", "0", "A", " ", "1", "A", " ", "0", "A">>
jpeg_sig == <<"F", "F", " ", "D", "8">>
riff_sig == <<"5", "2", " ", "4", "9", " ", "4", "6", " ", "4", "6">>
webp_sig == <<"5", "7", " ", "4", "5", " ", "4", "2", " ", "5", "0">>

\* GetImageFormat that takes every RIFF container for webp.
GetImageFormat_RiffOnly(b, cbegin) ==
    IF HeaderText(b, cbegin, 0, 8) = png_sig THEN Png
    ELSE IF HeaderText(b, cbegin, 0, 2) = jpeg_sig THEN Jpeg
    ELSE IF HeaderText(b, cbegin, 0, 4) = riff_sig THEN Webp
    ELSE Unknown

\* GetImageFormat(img).
GetImageFormat(b, cbegin) ==
    IF HeaderText(b, cbegin, 0, 8) = png_sig THEN Png
    ELSE IF HeaderText(b, cbegin, 0, 2) = jpeg_sig THEN Jpeg
    ELSE IF /\ HeaderText(b, cbegin, 0, 4) = riff_sig
            /\ HeaderText(b, cbegin, 8, 4) = webp_sig THEN Webp
    ELSE Unknown

\* A call of GetImageHeader(img, pos, n).
CallGetImageHeader ==
    /\ enums = <<>>
    /\ header = NoHeader
    /\ header' \in GetImageHeader(buf, base, pos, nArg)
    /\ UNCHANGED <<buf, base, pos, nArg, format, enums, cstrs>>
    /\ UNCHANGED <<pipelineVars, drawVars, demoVars>>

\* A call of GetImageFormat(img).
CallGetImageFormat ==
    /\ enums = <<>>
    /\ format = "none"
    /\ format' = GetImageFormat(buf, base)
    /\ UNCHANGED <<buf, base, pos, nArg, header, enums, cstrs>>
    /\ UNCHANGED <<pipelineVars, drawVars, demoVars>>

\* The calls of ToCStr on two enumerators.
CallToCStr ==
    /\ enums # <<>>
    /\ cstrs = <<>>
    /\ cstrs' = <<ToCStr(enums[1], enums[2]), ToCStr(enums[1], enums[3])>>
    /\ UNCHANGED <<buf, base, pos, nArg, header, format, enums>>
    /\ UNCHANGED <<pipelineVars, drawVars, demoVars>>

InitHelpers ==
    /\ PipelineInit /\ DrawRest /\ DemoRest
    /\ header = NoHeader /\ format = "none" /\ cstrs = <<>>
    /\ \/ /\ buf \in Buffers /\ base \in Bases
          /\ pos \in PosValues /\ nArg \in NValues
          /\ enums = <<>>
       \/ /\ buf = <<>> /\ base = 0 /\ pos = 0 /\ nArg = 0
          /\ enums \in EnumPairs

NextHelpers == CallGetImageHeader \/ CallGetImageFormat \/ CallToCStr

SpecHelpers == InitHelpers /\ [][NextHelpers]_vars

\* ------------------------------------------------------------------------
\* The demo application: Svg2ImgDemo, cb, clear_image, LoadTextureFromMemory
\* ------------------------------------------------------------------------

\* Number of presses of "Convert to img".
MaxPress == 2

\* out_img = img: std::string assignment from a string_view keeps a view of
\* the caller's bytes instead of copying them.
OutImgAssign_KeepsView(view) == [owner |-> "library", bytes |-> view]

\* out_img = img: std::string assignment from a string_view copies the
\* bytes into storage the demo owns.
OutImgAssign(view) == [owner |-> "demo", bytes |-> view]

\* glGenTextures(1, &img_texture): an unused texture name.
glGenTextures(used) ==
    CHOOSE t \in 1..(Cardinality(used) + 1) :
        /\ t \notin used
        /\ \A u \in 1..(t - 1) : u \in used

\* glDeleteTextures(1, &texture).
glDeleteTextures(used, t) == used \ {t}

\* One read of image bytes: who reads, from which storage, and whether that
\* storage is allocated at the time of the read.
Read(by, from, live) == [by |-> by, from |-> from, live |-> live]

\* The reads of the static out_img by the UI code of one frame.  Storage
\* owned by the library was freed when the callback returned.
FrameReads(o) ==
    { Read(f, IF o.owner = "demo" THEN "out_img" ELSE "view", o.owner = "demo")
        : f \in {"GetImageFormat", "GetImageHeader"} }

\* What one frame displays for out_img: ToCStr(GetImageFormat(out_img)) and
\* GetImageHeader(out_img, 0, 12).
FrameText(o) ==
    LET b == ToChars(o.bytes)
        cbegin == CHOOSE a \in Bases : TRUE
    IN  <<ToCStrFormat(GetImageFormat(b, cbegin)), HeaderText(b, cbegin, 0, 12)>>

\* clear_image() followed by raster::SvgToImage(...) in the button handler.
\* With an empty text box the library calls cb(NoInputData) before it
\* returns; otherwise a conversion is in flight.
PressConvert ==
    /\ presses < MaxPress
    /\ presses' = presses + 1
    /\ out_img' = [owner |-> "demo", bytes |-> <<>>]
    /\ delivered' = <<>>
    /\ glTextures' = IF texture # 0 THEN glDeleteTextures(glTextures, texture)
                     ELSE glTextures
    /\ texture' = 0
    /\ IF text = "empty"
       THEN /\ out_err' = ToCStr("Error", NoInputData)
            /\ inflight' = inflight
       ELSE /\ out_err' = "RasterError::None"
            /\ inflight' = inflight + 1
    /\ UNCHANGED <<text, reads, shown>>
    /\ UNCHANGED <<pipelineVars, drawVars, helperVars>>

\* The "Clear text" button.
ClearText ==
    /\ text = "svg"
    /\ text' = "empty"
    /\ UNCHANGED <<inflight, presses, texture, glTextures, out_img, out_err,
                   delivered, reads, shown>>
    /\ UNCHANGED <<pipelineVars, drawVars, helperVars>>

\* The "Default text" button.
DefaultText ==
    /\ text = "empty"
    /\ text' = "svg"
    /\ UNCHANGED <<inflight, presses, texture, glTextures, out_img, out_err,
                   delivered, reads, shown>>
    /\ UNCHANGED <<pipelineVars, drawVars, helperVars>>

\* cb(img, err, meta) with an error: only out_err changes.
CbError(e) ==
    /\ inflight > 0
    /\ inflight' = inflight - 1
    /\ out_err' = ToCStr("Error", e)
    /\ UNCHANGED <<text, presses, texture, glTextures, out_img, delivered,
                   reads, shown>>
    /\ UNCHANGED <<pipelineVars, drawVars, helperVars>>

\* cb(img, None, meta): the bytes are assigned to out_img and decoded by
\* LoadTextureFromMemory while the view is valid.  When stbi cannot decode
\* them LoadTextureFromMemory returns before it touches the texture;
\* otherwise it generates a texture and stores its name in texture.
CbImage(b, decodes) ==
    /\ inflight > 0
    /\ inflight' = inflight - 1
    /\ out_img' = OutImgAssign(b)
    /\ delivered' = b
    /\ reads' = reads \cup { Read("out_img = img", "view", TRUE),
                             Read("LoadTextureFromMemory", "view", TRUE) }
    /\ IF decodes
       THEN LET img_texture == glGenTextures(glTextures) IN
            /\ glTextures' = glTextures \cup {img_texture}
            /\ texture' = img_texture
       ELSE UNCHANGED <<texture, glTextures>>
    /\ UNCHANGED <<text, presses, out_err, shown>>
    /\ UNCHANGED <<pipelineVars, drawVars, helperVars>>

\* A conversion that ends without a callback (loadImage threw before ExecCb).
NoCallback ==
    /\ inflight > 0
    /\ inflight' = inflight - 1
    /\ UNCHANGED <<text, presses, texture, glTextures, out_img, out_err,
                   delivered, reads, shown>>
    /\ UNCHANGED <<pipelineVars, drawVars, helperVars>>

\* One frame of the UI below the buttons: format and header of out_img.
Frame ==
    /\ reads' = reads \cup FrameReads(out_img)
    /\ shown' = FrameText(out_img)
    /\ UNCHANGED <<text, inflight, presses, texture, glTextures, out_img,
                   out_err, delivered>>
    /\ UNCHANGED <<pipelineVars, drawVars, helperVars>>

InitDemo == PipelineInit /\ DrawRest /\ HelperRest /\ DemoRest

NextDemo ==
    \/ PressConvert
    \/ ClearText
    \/ DefaultText
    \/ \E e \in {ImgLoadingFailed, CanvasDrawingFailed, BlobExportFailed} : CbError(e)
    \/ \E b \in Blobs, decodes \in BOOLEAN : CbImage(b, decodes)
    \/ NoCallback
    \/ Frame

SpecDemo == InitDemo /\ [][NextDemo]_vars

\* ------------------------------------------------------------------------
\* Properties
\* ------------------------------------------------------------------------

\* The callback of request r was invoked with error e.
Delivered(r, e) == \E i \in DOMAIN calls[r] : calls[r][i].err = e

\* C1: the user callback of a request is invoked at most once, whatever the
\* host events and whichever stage throws; no terminal edge follows another.
C1_CallbackAtMostOnce == \A r \in Requests : Len(calls[r]) <= 1

\* A request ended by the img error event, with its single invocation, while
\* another request ended by a different terminal edge.
C1_Witness ==
    \E r, q \in Requests :
        /\ r # q
        /\ cause[r] = "img" /\ Len(calls[r]) = 1
        /\ st[q] \in {"Done", "Failed"} /\ cause[q] # "img" /\ Len(calls[q]) = 1

\* C2: every request that passed validation reaches Done or Failed and has
\* its callback invoked once the host has delivered all of its pending
\* events; no host outcome leaves it without an invocation.
C2_EveryRequestCompletes ==
    \A r \in Requests :
        (PassedValidation(r) /\ ~HostEventPending(r)) =>
            (st[r] \in {"Done", "Failed"} /\ Len(calls[r]) = 1)

\* C3: the callback is invoked synchronously with an empty view, NoInputData
\* and the caller's meta exactly when the markup is empty or starts with
\* '\0'; on that path no handle is allocated and no host stage is entered,
\* and every other markup gets a handle and goes on to Encoding.
C3_FastPathIffNoInput ==
    \A r \in Requests :
        st[r] # "Idle" =>
            IF svg[r] = <<>> \/ svg[r][1] = NUL
            THEN /\ Len(calls[r]) = 1
                 /\ calls[r][1].view = <<>>
                 /\ calls[r][1].err = NoInputData
                 /\ calls[r][1].meta = MetaOf(r)
                 /\ calls[r][1].sync
                 /\ created[r] = 0
                 /\ st[r] = "Rejected"
            ELSE /\ ~Delivered(r, NoInputData)
                 /\ created[r] = 1
                 /\ st[r] # "Rejected"
                 /\ cause[r] # "validator"

\* One request answered by the validator for a markup that is not empty but
\* starts with '\0', another forwarded to the host.
C3_Witness ==
    \E r, q \in Requests :
        /\ st[r] = "Rejected" /\ svg[r] # <<>> /\ Len(calls[r]) = 1
        /\ st[q] = "Loading" /\ created[q] = 1

\* C4: for a request that passed validation the callback is invoked only
\* after the issuing SvgToImage call has returned, UriEncodingFailed
\* included.
C4_CallbackAfterReturn ==
    \A r \in Requests :
        PassedValidation(r) => \A i \in DOMAIN calls[r] : ~calls[r][i].sync

\* C5: a request that passed validation has exactly one handle, destroyed
\* exactly once on its terminal transition, on every path and also when the
\* callback throws; a request answered by the validator has none.
C5_HandleCreatedAndDestroyedOnce ==
    \A r \in Requests :
        /\ destroyed[r] <= created[r]
        /\ created[r] = (IF PassedValidation(r) THEN 1 ELSE 0)
        /\ destroyed[r] = (IF st[r] \in {"Done", "Failed"} THEN 1 ELSE 0)

C7_EmptyExportFails ==
    \A r \in Requests :
        \A i \in DOMAIN calls[r] :
            ~(calls[r][i].err = None /\ calls[r][i].view = <<>>)

\* C8: each error code is produced only by its own stage; in particular
\* CanvasDrawingFailed only by sizing/drawing the surface, never by a
\* failure of the export request canvas.toBlob.
C8_ErrorsAreStageIndexed ==
    \A r \in Requests :
        \A i \in DOMAIN calls[r] :
            /\ calls[r][i].err = NoInputData => cause[r] = "validator"
            /\ calls[r][i].err = UriEncodingFailed =>
                   cause[r] = "encodeURIComponent"
            /\ calls[r][i].err = ImgLoadingFailed => cause[r] = "img"
            /\ calls[r][i].err = CanvasDrawingFailed => cause[r] = "drawImage"
            /\ calls[r][i].err = BlobExportFailed =>
                   cause[r] \in {"nullBlob", "arrayBuffer"}

C10_OneCallbackPerRequest ==
    \A r \in Requests :
        (/\ PassedValidation(r)
         /\ ~HostEventPending(r)
         /\ \A q \in Requests \ {r} : HostEventPending(q))
        => /\ Len(calls[r]) = 1
           /\ calls[r][1].meta = MetaOf(r)
           /\ calls[r][1].err # None => calls[r][1].view = <<>>
           /\ calls[r][1].err = None => calls[r][1].view = blob[r]

\* C11: when the user callback throws while being invoked, on the success
\* path and on each failure path, an alert is raised and the callback is not
\* invoked again.
C11_AlertWhenCallbackThrows ==
    \A r \in Requests :
        /\ Len(calls[r]) <= 1
        /\ (PassedValidation(r) /\ \E i \in DOMAIN calls[r] : calls[r][i].threw)
               => alerts[r] >= 1

\* The pipeline of the spec: its stages in order, and its failure exits.
PipelineOrder == <<"Encoding", "Loading", "Drawing", "Exporting", "Done">>

\* t is a run of the pipeline: a prefix of the stage order, or a non-empty
\* prefix that stops short of Done followed by Failed.
IsPipelineRun(t) ==
    \/ Len(t) <= 5 /\ t = SubSeq(PipelineOrder, 1, Len(t))
    \/ /\ Len(t) \in 2..5
       /\ SubSeq(t, 1, Len(t) - 1) = SubSeq(PipelineOrder, 1, Len(t) - 1)
       /\ t[Len(t)] = "Failed"

\* C17: a request visits the stages only in the order Encoding, Loading,
\* Drawing, Exporting, Done; a failure goes from the current stage straight
\* to Failed; no stage is entered twice; nothing follows Done or Failed.
C17_StageOrder ==
    \A r \in Requests :
        /\ IsPipelineRun(trace[r])
        /\ \A i, j \in DOMAIN trace[r] : trace[r][i] = trace[r][j] => i = j
        /\ \A i \in DOMAIN trace[r] :
               trace[r][i] \in {"Done", "Failed"} => i = Len(trace[r])
        /\ st[r] \in {"Done", "Failed"} =>
               (trace[r] # <<>> /\ trace[r][Len(trace[r])] = st[r])
        /\ HostEventPending(r) =>
               (trace[r] # <<>> /\ trace[r][Len(trace[r])] \notin {"Done", "Failed"})

\* One request ran through all five stages, another failed in Drawing after
\* Encoding and Loading.
C17_Witness ==
    \E r, q \in Requests :
        /\ trace[r] = PipelineOrder
        /\ trace[q] = <<"Encoding", "Loading", "Drawing", "Failed">>

\* C18: the native inputs of a request (markup bytes, format string) are only
\* read, and only before the issuing call returns; no handler of an
\* asynchronous stage dereferences them.
C18_InputsReadOnlySynchronously ==
    \A r \in Requests :
        \A a \in accesses[r] : a.mode = "read" /\ a.sync

\* A request that went through every asynchronous stage after reading both
\* inputs during the call.
C18_Witness ==
    \E r \in Requests :
        /\ st[r] = "Done"
        /\ {a.ptr : a \in accesses[r]} = {"data", "format"}

\* The caller's size is explicit in the sense of the claim: both non-zero.
BothNonZero == width \notin {"0", "-0"} /\ height \notin {"0", "-0"}

\* The surface has the caller's size and the image is drawn scaled into it.
SizedAndScaled ==
    /\ canvas = [width |-> width, height |-> height]
    /\ drawImage = <<x, y, width, height>>

\* The surface has the image's natural size and the image is drawn unscaled.
NaturalAndUnscaled ==
    /\ canvas = [width |-> img.width, height |-> img.height]
    /\ drawImage = <<x, y>>

\* C12 as stated: the surface is sized to (width, height) and the image drawn
\* scaled exactly when both are non-zero; otherwise natural size, unscaled.
C12_SizedIffBothNonZero ==
    dpc = "drawn" =>
        IF BothNonZero THEN SizedAndScaled ELSE NaturalAndUnscaled

\* C12 amended: the surface is sized to (width, height) and the image drawn
\* scaled exactly when both are non-zero and neither is NaN; otherwise the
\* surface has the natural size and the image is drawn unscaled; the two
\* decisions always agree.
C12_SizedIffBothTruthy ==
    dpc = "drawn" =>
        /\ IF BothNonZero /\ width # "NaN" /\ height # "NaN"
           THEN SizedAndScaled
           ELSE NaturalAndUnscaled
        /\ (Len(drawImage) = 4) <=> (canvas = [width |-> width, height |-> height])

\* An explicit size that differs from the natural one was applied.
C12_Witness ==
    /\ dpc = "drawn"
    /\ width = "40" /\ height = "70"
    /\ img.width = "300"
    /\ SizedAndScaled

\* The unsigned value of the buffer's i-th byte.
ByteAt(i) == (buf[i] + 256) % 256

\* The hex text of a sequence of byte values.
RECURSIVE HexPairs(_)
HexPairs(s) ==
    IF s = <<>> THEN <<>>
    ELSE IF Len(s) = 1 THEN Format02X(s[1])
    ELSE Format02X(s[1]) \o <<" ">> \o HexPairs(Tail(s))

\* The number of bytes of [pos, pos+n) that lie inside the buffer.
ClippedCount == IF pos >= Len(buf) THEN 0 ELSE Min(nArg, Len(buf) - pos)

\* C13: for every buffer, pos and n, GetImageHeader returns the hex text of
\* exactly the bytes of [pos, pos+n) clipped to the buffer ("" when pos is at
\* or past the end), without failing its assertion or reading outside.
C13_ClippedRange ==
    header # NoHeader =>
        header = Returns(HexPairs([i \in 1..ClippedCount |-> ByteAt(pos + i)]))

UpperHex == {HexDigits[i] : i \in DOMAIN HexDigits}

HexVal(c) == CHOOSE v \in 0..15 : HexDigits[v + 1] = c

\* C14: the returned text has, for each selected byte in order, exactly two
\* upper-case hex digits that spell its value 0..255, consecutive pairs are
\* separated by one space, nothing leads or trails, so k > 0 bytes give
\* 3k - 1 characters; the first 8 bytes of a png give 89 50 4E 47 0D 0A 1A 0A.
C14_TwoUpperHexDigitsPerByte ==
    header.kind = "returns" =>
        LET r == HeaderRange(buf, base, pos, nArg)
            k == r.end - r.begin
            first == r.begin - base
            s == header.str
        IN  /\ Len(s) = IF k = 0 THEN 0 ELSE 3 * k - 1
            /\ \A i \in 0..(k - 1) :
                   /\ s[3 * i + 1] \in UpperHex
                   /\ s[3 * i + 2] \in UpperHex
                   /\ 16 * HexVal(s[3 * i + 1]) + HexVal(s[3 * i + 2])
                          = ByteAt(first + i + 1)
            /\ \A i \in 1..(k - 1) : s[3 * i] = " "
            /\ (buf = ToChars(PngFile) /\ pos = 0 /\ nArg = 8) => s = png_sig

\* The header of a png was formatted, high bytes and small bytes included.
C14_Witness ==
    /\ header.kind = "returns"
    /\ buf = ToChars(PngFile) /\ pos = 0 /\ nArg = 8
    /\ header.str = png_sig

\* The buffer has the byte values sig at offset off.
HasAt(off, sig) ==
    /\ Len(buf) >= off + Len(sig)
    /\ \A i \in DOMAIN sig : ByteAt(off + i) = sig[i]

\* C15: the detected format is Png iff bytes 0..7 are the png signature, Jpeg
\* iff bytes 0..1 are FF D8, Webp iff bytes 0..3 are RIFF and bytes 8..11 are
\* WEBP, and Unknown in every other case, short and empty buffers included.
C15_FormatBySignature ==
    format # "none" =>
        /\ format = Png <=> HasAt(0, PngSig)
        /\ format = Jpeg <=> HasAt(0, JpegSig)
        /\ format = Webp <=> (HasAt(0, RiffSig) /\ HasAt(8, WebpSig))
        /\ format = Unknown <=>
               ~ \/ HasAt(0, PngSig)
                 \/ HasAt(0, JpegSig)
                 \/ (HasAt(0, RiffSig) /\ HasAt(8, WebpSig))

\* A webp file was detected through both of its signatures.
C15_Witness ==
    /\ format = Webp
    /\ buf = ToChars(WebpFile)

\* C16: on each enumerator of Error and of Format, ToCStr returns a string
\* that is not null, and two different enumerators of one enumeration get
\* two different strings.
C16_ToCStrTotalAndInjective ==
    cstrs # <<>> =>
        /\ cstrs[1] # Nullptr
        /\ cstrs[2] # Nullptr
        /\ enums[2] # enums[3] => cstrs[1] # cstrs[2]

\* Two different error codes were turned into strings.
C16_Witness ==
    /\ cstrs # <<>>
    /\ enums[1] = "Error"
    /\ enums[2] = None /\ enums[3] = BlobExportFailed
    /\ cstrs[1] # cstrs[2]

\* C19: the callback copies the bytes into storage of the demo and reads the
\* transient view only while it is allocated; every read by the UI, in every
\* frame, is a read of that copy, which holds the delivered bytes.
C19_DemoReadsItsOwnCopy ==
    /\ out_img.owner = "demo"
    /\ out_img.bytes = delivered
    /\ \A r \in reads :
           /\ r.live
           /\ r.from = "view" <=> r.by \in {"out_img = img", "LoadTextureFromMemory"}

\* A frame displayed the header of an image after its callback returned.
C19_Witness ==
    /\ delivered # <<>>
    /\ Read("GetImageHeader", "out_img", TRUE) \in reads
    /\ Read("out_img = img", "view", TRUE) \in reads
    /\ shown = FrameText([owner |-> "demo", bytes |-> delivered])

\* C20: every texture in the GL context is the one the variable texture
\* names (none was overwritten or cleared without being deleted), so at
\* most one conversion texture exists.
C20_AtMostOneTexture ==
    /\ glTextures \subseteq {texture}
    /\ Cardinality(glTextures) <= 1

====
